---- MODULE Spec2Model ----
(***************************************************************************)
(* Model of the proxy-node coordinator of src/src/main.rs: the two shared  *)
(* registries (RegisteredNodes, ActiveNodes), the /register and /nodes     *)
(* endpoints, and the ProxyWsSession actor (started / handle / stopped).   *)
(*                                                                         *)
(* Four specifications are given.                                          *)
(*   Spec        the program as main() wires it: sessions are built by     *)
(*               ws_index only (authed = false).                           *)
(*   SpecSession the session actor driven callback by callback on every    *)
(*               value of its struct: started() on a session built with    *)
(*               either value of `authed`, handle() on a running session   *)
(*               that is or is not authenticated, stopped() on a stopped   *)
(*               context.  It is what the handler code does when it runs;  *)
(*               under Spec started() stops every session before a frame   *)
(*               is handled.                                               *)
(*   SpecJoint   the endpoints of Spec beside NumJoint session actors, with *)
(*               the fairness of the guards' critical sections.            *)
(*   SpecTransport SpecSession with the Err items of the stream and the    *)
(*               fairness under which a stopping actor is torn down.       *)
(***************************************************************************)
EXTENDS Integers, Sequences, FiniteSets, TLC

\* ---------------------------------------------------------------- bounds
NumCalls == 2      \* POST /register calls
NumSessions == 2   \* WebSocket connections
MaxOut == 2        \* frames a session writes to its peer before its peer stops sending
NumJoint == 1      \* WebSocket connections run beside the /register calls (SpecJoint)

Calls == 1..NumCalls
Sessions == 1..NumSessions
JointSessions == 1..NumJoint

\* Client-supplied Uuids: the first eight characters of the text form and the rest.
Ids == {[hi |-> "aaaaaaaa", lo |-> 1], [hi |-> "bbbbbbbb", lo |-> 2]}
Passwords == {"p1", "p2"}
Devices == {"d1", "d2"}

\* Uuid::new_v4() of ws_index: a fresh random identifier per connection, taken
\* to differ from every client-supplied identifier and from every other one.
TempId(s) == [hi |-> "temp0000", lo |-> 100 + s]

\* ------------------------------------------------------------ data types
RegisteredNode(id, password, mc_id) ==
    [id |-> id, password |-> password, mc_id |-> mc_id]

RegisterRequest == [id : Ids, password : Passwords, mc_id : Devices]

\* format!("node-{}", &id.to_string()[..8])
NodeName(id) == "node-" \o id.hi

\* Mutant: the entry is built without the session's device identifier.
NewProxyNodeWithoutDevice(id, mc_id) ==
    [id |-> id, name |-> NodeName(id), ip |-> "unknown", port |-> 0,
     active |-> TRUE, mc_id |-> ""]

\* ProxyNode { id: self.id, name, ip: "unknown", port: 0, active: true, mc_id }
NewProxyNode(id, mc_id) ==
    [id |-> id, name |-> NodeName(id), ip |-> "unknown", port |-> 0,
     active |-> TRUE, mc_id |-> mc_id]

\* HashMap operations; a map is a function on the set of its keys.
EmptyMap == << >>
ContainsKey(m, k) == k \in DOMAIN m
MapInsert(m, k, v) == [x \in (DOMAIN m) \cup {k} |-> IF x = k THEN v ELSE m[x]]
MapRemove(m, k) == [x \in (DOMAIN m) \ {k} |-> m[x]]

\* Mutex owners.
Free == <<"free", 0>>
RegisterOwner(c) == <<"register", c>>
SessionOwner(s) == <<"session", s>>
NodesOwner == <<"nodes", 0>>

\* ---------------------------------------------------------------- frames
NoText == [kind |-> "none"]
AuthText(id, password) == [kind |-> "auth", id |-> id, password |-> password]
SetAddressText(ip, port) == [kind |-> "set_address", ip |-> ip, port |-> port]
GarbageText == [kind |-> "garbage"]

Texts ==
    {AuthText(id, pw) : id \in Ids, pw \in Passwords}
        \cup {SetAddressText("10.0.0.5", 9000), GarbageText}

\* Items of the stream: Ok(ws::Message) frames and Err(ProtocolError).
TextFrame(t) == [type |-> "Text", text |-> t]
ErrItem == [type |-> "Error"]
Frames ==
    {TextFrame(t) : t \in Texts}
        \cup {[type |-> "Close"], [type |-> "Ping"], [type |-> "Pong"],
              [type |-> "Binary"], ErrItem}

\* serde_json::from_str::<AuthMessage>(&text): Ok exactly for a text that
\* carries an id and a password.
ParsesAsAuth(t) == t.kind = "auth"

\* What the session writes to its peer.
CloseOut == "<close>"
PongOut == "<pong>"

VARIABLES
    reg_nodes,    \* RegisteredNodes: Uuid -> RegisteredNode
    nodes,        \* ActiveNodes: Uuid -> ProxyNode
    reg_lock,     \* owner of the RegisteredNodes mutex
    nodes_lock,   \* owner of the ActiveNodes mutex
    calls,        \* POST /register calls: pc, request, response
    sess,         \* ProxyWsSession actors: context state and struct fields, and
                  \* two records of the past: err (the stream yielded an Err
                  \* item), removes (calls of nodes.remove made by the session)
    out,          \* per session, the frames written to the peer
    nodes_pc,     \* GET /nodes: "idle" or "locked"
    list,         \* body of the last GET /nodes response
    stdout        \* the last line printed by println!

vars ==
    <<reg_nodes, nodes, reg_lock, nodes_lock, calls, sess, out, nodes_pc, list, stdout>>

\* println!: the line's format, the session id in it, the text in it.
Line(l, id, text) == [line |-> l, id |-> id, text |-> text]
NoLine == Line("", TempId(0), NoText)

NoReq == [id |-> TempId(0), password |-> "", mc_id |-> ""]
IdleCall == [pc |-> "idle", req |-> NoReq, resp |-> "none"]
AbsentSession ==
    [st |-> "absent", id |-> TempId(0), authed |-> FALSE, mc_id |-> "",
     pc |-> "idle", msg |-> NoText, err |-> FALSE, removes |-> 0]

InitCommon ==
    /\ nodes = EmptyMap
    /\ reg_lock = Free
    /\ nodes_lock = Free
    /\ calls = [c \in Calls |-> IdleCall]
    /\ sess = [s \in Sessions |-> AbsentSession]
    /\ out = [s \in Sessions |-> << >>]
    /\ nodes_pc = "idle"
    /\ list = << >>
    /\ stdout = NoLine

\* main(): both registries start empty.
Init ==
    /\ reg_nodes = EmptyMap
    /\ InitCommon

\* ------------------------------------------------------- POST /register
\* let mut reg_nodes = data.lock().unwrap();
RegisterLock(c, req) ==
    /\ calls[c].pc = "idle"
    /\ calls[c].resp = "none"
    /\ reg_lock = Free
    /\ reg_lock' = RegisterOwner(c)
    /\ calls' = [calls EXCEPT ![c] = [pc |-> "check", req |-> req, resp |-> "none"]]
    /\ UNCHANGED <<reg_nodes, nodes, nodes_lock, sess, out, nodes_pc, list, stdout>>

\* Mutant: the duplicate check is missing, every call goes on to insert.
RegisterCheckNoDuplicateTest(c) ==
    /\ calls[c].pc = "check"
    /\ calls' = [calls EXCEPT ![c].pc = "insert"]
    /\ UNCHANGED <<reg_lock, reg_nodes, nodes, nodes_lock, sess, out, nodes_pc, list, stdout>>

\* if reg_nodes.contains_key(&reg.id) { return BadRequest }  (the guard drops)
RegisterCheck(c) ==
    /\ calls[c].pc = "check"
    /\ IF ContainsKey(reg_nodes, calls[c].req.id)
       THEN /\ calls' = [calls EXCEPT ![c].pc = "done", ![c].resp = "conflict"]
            /\ reg_lock' = Free
       ELSE /\ calls' = [calls EXCEPT ![c].pc = "insert"]
            /\ UNCHANGED reg_lock
    /\ UNCHANGED <<reg_nodes, nodes, nodes_lock, sess, out, nodes_pc, list, stdout>>

\* Mutant: the guard of register outlives the call.
RegisterInsertKeepsGuard(c) ==
    /\ calls[c].pc = "insert"
    /\ LET r == calls[c].req
       IN reg_nodes' = MapInsert(reg_nodes, r.id, RegisteredNode(r.id, r.password, r.mc_id))
    /\ calls' = [calls EXCEPT ![c].pc = "done", ![c].resp = "ok"]
    /\ UNCHANGED <<reg_lock, nodes, nodes_lock, sess, out, nodes_pc, list, stdout>>

\* reg_nodes.insert(reg.id, node); Ok  (the guard drops)
RegisterInsert(c) ==
    /\ calls[c].pc = "insert"
    /\ LET r == calls[c].req
       IN reg_nodes' = MapInsert(reg_nodes, r.id, RegisteredNode(r.id, r.password, r.mc_id))
    /\ calls' = [calls EXCEPT ![c].pc = "done", ![c].resp = "ok"]
    /\ reg_lock' = Free
    /\ UNCHANGED <<nodes, nodes_lock, sess, out, nodes_pc, list, stdout>>

\* ------------------------------------------------------------ GET /ws/
\* Mutant: ws_index builds the session with authed: true.
WsIndexAuthenticated(s) ==
    /\ sess[s].st = "absent"
    /\ sess' = [sess EXCEPT ![s] =
                   [st |-> "created", id |-> TempId(s), authed |-> TRUE, mc_id |-> "",
                    pc |-> "idle", msg |-> NoText, err |-> FALSE, removes |-> 0]]
    /\ UNCHANGED <<reg_nodes, nodes, reg_lock, nodes_lock, calls, out, nodes_pc, list, stdout>>

\* Mutant: the temporary identifier is not fresh, it is an identifier that a
\* client registers and authenticates with.
WsIndexReusesId(s) ==
    /\ sess[s].st = "absent"
    /\ sess' = [sess EXCEPT ![s] =
                   [st |-> "created", id |-> [hi |-> "aaaaaaaa", lo |-> 1],
                    authed |-> FALSE, mc_id |-> "",
                    pc |-> "idle", msg |-> NoText, err |-> FALSE, removes |-> 0]]
    /\ UNCHANGED <<reg_nodes, nodes, reg_lock, nodes_lock, calls, out, nodes_pc, list, stdout>>

\* ProxyWsSession { id: temp_id, authed: false, mc_id: String::new() } and
\* ws::start: the actor exists, started() has not run yet.
WsIndex(s) ==
    /\ sess[s].st = "absent"
    /\ sess' = [sess EXCEPT ![s] =
                   [st |-> "created", id |-> TempId(s), authed |-> FALSE, mc_id |-> "",
                    pc |-> "idle", msg |-> NoText, err |-> FALSE, removes |-> 0]]
    /\ UNCHANGED <<reg_nodes, nodes, reg_lock, nodes_lock, calls, out, nodes_pc, list, stdout>>

\* ctx.text(..) / ctx.close(..) / ctx.pong(..): frames queued for the peer.
Emit(s, frames) == out' = [out EXCEPT ![s] = @ \o frames]

Println(l, id, text) == stdout' = Line(l, id, text)

\* Mutant: the test of started() is inverted (if self.authed), so that an
\* unauthenticated session is the one that registers itself.
StartedTestInverted(s) ==
    /\ sess[s].st = "created"
    /\ IF sess[s].authed
       THEN /\ Println("Unauthenticated WS connection, closing", TempId(0), NoText)
            /\ Emit(s, <<"Authentication required", CloseOut>>)
            /\ sess' = [sess EXCEPT ![s].st = "stopping"]
            /\ UNCHANGED <<nodes, nodes_lock>>
       ELSE /\ Println("WebSocket connected", sess[s].id, NoText)
            /\ nodes_lock = Free
            /\ nodes' = MapInsert(nodes, sess[s].id, NewProxyNode(sess[s].id, sess[s].mc_id))
            /\ sess' = [sess EXCEPT ![s].st = "running"]
            /\ UNCHANGED <<out, nodes_lock>>
    /\ UNCHANGED <<reg_nodes, reg_lock, calls, nodes_pc, list>>

\* Actor::started.  Unauthenticated: notice, close frame, ctx.stop().
\* Authenticated: insert the ProxyNode under self.id (the guard is a temporary
\* of the one statement).
Started(s) ==
    /\ sess[s].st = "created"
    /\ IF ~sess[s].authed
       THEN /\ Println("Unauthenticated WS connection, closing", TempId(0), NoText)
            /\ Emit(s, <<"Authentication required", CloseOut>>)
            /\ sess' = [sess EXCEPT ![s].st = "stopping"]
            /\ UNCHANGED <<nodes, nodes_lock>>
       ELSE /\ Println("WebSocket connected", sess[s].id, NoText)
            /\ nodes_lock = Free
            /\ nodes' = MapInsert(nodes, sess[s].id, NewProxyNode(sess[s].id, sess[s].mc_id))
            /\ sess' = [sess EXCEPT ![s].st = "running"]
            /\ UNCHANGED <<out, nodes_lock>>
    /\ UNCHANGED <<reg_nodes, reg_lock, calls, nodes_pc, list>>

\* Mutant: stopped() forgets the removal.
StoppedKeepsEntry(s) ==
    /\ sess[s].st = "stopping"
    /\ Println("WebSocket disconnected", sess[s].id, NoText)
    /\ nodes_lock = Free
    /\ sess' = [sess EXCEPT ![s].st = "stopped"]
    /\ UNCHANGED <<reg_nodes, nodes, reg_lock, nodes_lock, calls, out, nodes_pc, list>>

\* Mutant: stopped() empties the map (clear() for remove(&self.id)).
StoppedClearsRegistry(s) ==
    /\ sess[s].st = "stopping"
    /\ Println("WebSocket disconnected", sess[s].id, NoText)
    /\ nodes_lock = Free
    /\ nodes' = EmptyMap
    /\ sess' = [sess EXCEPT ![s].st = "stopped", ![s].removes = @ + 1]
    /\ UNCHANGED <<reg_nodes, reg_lock, nodes_lock, calls, out, nodes_pc, list>>

\* Mutant: stopped() removes the entry without taking the guard.
StoppedWithoutGuard(s) ==
    /\ sess[s].st = "stopping"
    /\ Println("WebSocket disconnected", sess[s].id, NoText)
    /\ nodes' = MapRemove(nodes, sess[s].id)
    /\ sess' = [sess EXCEPT ![s].st = "stopped", ![s].removes = @ + 1]
    /\ UNCHANGED <<reg_nodes, reg_lock, nodes_lock, calls, out, nodes_pc, list>>

\* Actor::stopped, run once by the context after ctx.stop() or the end of the
\* stream: self.nodes.lock().unwrap().remove(&self.id).
Stopped(s) ==
    /\ sess[s].st = "stopping"
    /\ Println("WebSocket disconnected", sess[s].id, NoText)
    /\ nodes_lock = Free
    /\ nodes' = MapRemove(nodes, sess[s].id)
    /\ sess' = [sess EXCEPT ![s].st = "stopped", ![s].removes = @ + 1]
    /\ UNCHANGED <<reg_nodes, reg_lock, nodes_lock, calls, out, nodes_pc, list>>

\* ----------------------------------------------------------- GET /nodes
\* let nodes = data.lock().unwrap();
NodesLock ==
    /\ nodes_pc = "idle"
    /\ nodes_lock = Free
    /\ nodes_lock' = NodesOwner
    /\ nodes_pc' = "locked"
    /\ UNCHANGED <<reg_nodes, nodes, reg_lock, calls, sess, out, list, stdout>>

\* The sequences that hold each value of the map once (HashMap::values, in
\* the map's iteration order, which is unspecified).
ValueLists(m) ==
    {[i \in 1..Cardinality(DOMAIN m) |-> m[f[i]]] :
        f \in {g \in [1..Cardinality(DOMAIN m) -> DOMAIN m] :
                  \A i, j \in 1..Cardinality(DOMAIN m) : i # j => g[i] # g[j]}}

\* nodes.values().cloned().collect(); Ok().json(list)  (the guard drops)
NodesRespond ==
    /\ nodes_pc = "locked"
    /\ list' \in ValueLists(nodes)
    /\ nodes_lock' = Free
    /\ nodes_pc' = "idle"
    /\ UNCHANGED <<reg_nodes, nodes, reg_lock, calls, sess, out, stdout>>

\* ------------------------------------------------- the program as wired
Next ==
    \/ \E c \in Calls, req \in RegisterRequest : RegisterLock(c, req)
    \/ \E c \in Calls : RegisterCheck(c)
    \/ \E c \in Calls : RegisterInsert(c)
    \/ \E s \in Sessions : WsIndex(s)
    \/ \E s \in Sessions : Started(s)
    \/ \E s \in Sessions : Stopped(s)
    \/ NodesLock
    \/ NodesRespond

Spec == Init /\ [][Next]_vars

\* ------------------------------------------- StreamHandler::handle
\* The context polls the stream only while the actor is running: after
\* ctx.stop() no further frame reaches handle().  One frame at a time.
Handling(s, f) ==
    /\ sess[s].st = "running"
    /\ sess[s].pc = "idle"
    /\ Len(out[s]) < MaxOut
    /\ f \in Frames

\* Mutant: the authentication block is entered without the test of
\* self.authed, so an authenticated session authenticates again.
HandleAuthLockWhenAuthed(s, f) ==
    /\ Handling(s, f)
    /\ f.type = "Text"
    /\ Println("WS message", sess[s].id, f.text)
    /\ ParsesAsAuth(f.text)
    /\ reg_lock = Free
    /\ reg_lock' = SessionOwner(s)
    /\ sess' = [sess EXCEPT ![s].pc = "locked", ![s].msg = f.text]
    /\ UNCHANGED <<reg_nodes, nodes, nodes_lock, calls, out, nodes_pc, list>>

\* Text, !self.authed, the text parses as AuthMessage:
\* let reg_nodes = self.reg_nodes.lock().unwrap();
HandleAuthLock(s, f) ==
    /\ Handling(s, f)
    /\ f.type = "Text"
    /\ Println("WS message", sess[s].id, f.text)
    /\ ~sess[s].authed
    /\ ParsesAsAuth(f.text)
    /\ reg_lock = Free
    /\ reg_lock' = SessionOwner(s)
    /\ sess' = [sess EXCEPT ![s].pc = "locked", ![s].msg = f.text]
    /\ UNCHANGED <<reg_nodes, nodes, nodes_lock, calls, out, nodes_pc, list>>

\* Mutant: the password comparison is missing.
AuthAcceptedWithoutPassword(store, auth) == ContainsKey(store, auth.id)

\* if let Some(reg_node) = reg_nodes.get(&auth.id) { if reg_node.password == auth.password
AuthAccepted(store, auth) ==
    /\ ContainsKey(store, auth.id)
    /\ store[auth.id].password = auth.password

\* The body under the guard.  Accepted: authed, "Authenticated", id and mc_id
\* taken over, return.  Otherwise "Authentication failed", close, ctx.stop().
\* The guard drops on both paths.
HandleAuthBody(s) ==
    /\ sess[s].pc = "locked"
    /\ LET auth == sess[s].msg
       IN IF AuthAccepted(reg_nodes, auth)
          THEN /\ Emit(s, <<"Authenticated">>)
               /\ Println("Node authenticated", auth.id, NoText)
               /\ sess' = [sess EXCEPT ![s].authed = TRUE,
                                       ![s].id = auth.id,
                                       ![s].mc_id = reg_nodes[auth.id].mc_id,
                                       ![s].pc = "idle", ![s].msg = NoText]
          ELSE /\ Emit(s, <<"Authentication failed", CloseOut>>)
               /\ sess' = [sess EXCEPT ![s].st = "stopping",
                                       ![s].pc = "idle", ![s].msg = NoText]
               /\ UNCHANGED stdout
    /\ reg_lock' = Free
    /\ UNCHANGED <<reg_nodes, nodes, nodes_lock, calls, nodes_pc, list>>

\* Mutant: a text that is not an AuthMessage is taken as an address message
\* before the authentication test and stored under the session's id.
HandleInvalidAuthStoresAddress(s, f) ==
    /\ Handling(s, f)
    /\ f.type = "Text"
    /\ Println("WS message", sess[s].id, f.text)
    /\ ~sess[s].authed
    /\ ~ParsesAsAuth(f.text)
    /\ nodes_lock = Free
    /\ nodes' = MapInsert(nodes, sess[s].id, NewProxyNode(sess[s].id, sess[s].mc_id))
    /\ Emit(s, <<"Address updated">>)
    /\ UNCHANGED <<reg_nodes, reg_lock, nodes_lock, calls, sess, nodes_pc, list>>

\* Text, !self.authed, the text does not parse as AuthMessage.
HandleInvalidAuth(s, f) ==
    /\ Handling(s, f)
    /\ f.type = "Text"
    /\ Println("WS message", sess[s].id, f.text)
    /\ ~sess[s].authed
    /\ ~ParsesAsAuth(f.text)
    /\ Emit(s, <<"Invalid authentication message", CloseOut>>)
    /\ sess' = [sess EXCEPT ![s].st = "stopping"]
    /\ UNCHANGED <<reg_nodes, nodes, reg_lock, nodes_lock, calls, nodes_pc, list>>

\* Text, self.authed: the arm ends after the authentication block; nothing
\* is read from the text, written, or sent.
HandleTextAuthed(s, f) ==
    /\ Handling(s, f)
    /\ f.type = "Text"
    /\ Println("WS message", sess[s].id, f.text)
    /\ sess[s].authed
    /\ UNCHANGED <<reg_nodes, nodes, reg_lock, nodes_lock, calls, sess, out, nodes_pc, list>>

\* Ping: ctx.pong.
HandlePing(s, f) ==
    /\ Handling(s, f)
    /\ f.type = "Ping"
    /\ Emit(s, <<PongOut>>)
    /\ UNCHANGED <<reg_nodes, nodes, reg_lock, nodes_lock, calls, sess, nodes_pc, list, stdout>>

\* Binary prints a line; Pong does nothing.
HandleIgnored(s, f) ==
    /\ Handling(s, f)
    /\ f.type \in {"Pong", "Binary"}
    /\ IF f.type = "Binary"
       THEN Println("Received binary message", sess[s].id, NoText)
       ELSE UNCHANGED stdout
    /\ UNCHANGED <<reg_nodes, nodes, reg_lock, nodes_lock, calls, sess, out, nodes_pc, list>>

\* `_ => ()` on Err(ProtocolError): nothing is sent, ctx.stop() is not called,
\* the actor is left as it was.  That the stream has yielded an Err item is
\* kept in `err`.
HandleError(s) ==
    /\ Handling(s, ErrItem)
    /\ sess' = [sess EXCEPT ![s].err = TRUE]
    /\ UNCHANGED <<reg_nodes, nodes, reg_lock, nodes_lock, calls, out, nodes_pc, list, stdout>>

\* Mutant: the Close arm removes the entry itself before ctx.stop(), and
\* stopped() removes it again.
HandleCloseRemovesToo(s, f) ==
    /\ Handling(s, f)
    /\ f.type = "Close"
    /\ Println("WS closed", sess[s].id, NoText)
    /\ Emit(s, <<CloseOut>>)
    /\ nodes_lock = Free
    /\ nodes' = MapRemove(nodes, sess[s].id)
    /\ sess' = [sess EXCEPT ![s].st = "stopping", ![s].removes = @ + 1]
    /\ UNCHANGED <<reg_nodes, reg_lock, nodes_lock, calls, nodes_pc, list>>

\* Close: ctx.close(reason); ctx.stop().
HandleClose(s, f) ==
    /\ Handling(s, f)
    /\ f.type = "Close"
    /\ Println("WS closed", sess[s].id, NoText)
    /\ Emit(s, <<CloseOut>>)
    /\ sess' = [sess EXCEPT ![s].st = "stopping"]
    /\ UNCHANGED <<reg_nodes, nodes, reg_lock, nodes_lock, calls, nodes_pc, list>>

\* The stream ends (the transport dropped, or failed after an Err item):
\* finished() is not overridden, the context stops the actor.
StreamFinished(s) ==
    /\ sess[s].st = "running"
    /\ sess[s].pc = "idle"
    /\ sess' = [sess EXCEPT ![s].st = "stopping"]
    /\ UNCHANGED <<reg_nodes, nodes, reg_lock, nodes_lock, calls, out, nodes_pc, list, stdout>>

\* ------------------------------------------ the session actor by itself
\* A ProxyWsSession built with authed = true (the branch of started() that
\* registers the node), carrying what an accepted AuthMessage leaves in the
\* struct: a registered identity and its device identifier.
OpenAuthenticated(s, id) ==
    /\ sess[s].st = "absent"
    /\ ContainsKey(reg_nodes, id)
    /\ sess' = [sess EXCEPT ![s] =
                   [st |-> "created", id |-> id, authed |-> TRUE,
                    mc_id |-> reg_nodes[id].mc_id, pc |-> "idle", msg |-> NoText,
                    err |-> FALSE, removes |-> 0]]
    /\ UNCHANGED <<reg_nodes, nodes, reg_lock, nodes_lock, calls, out, nodes_pc, list, stdout>>

\* The session value ws_index builds, taken at the stream handler: handle()
\* is applied to it as to a running actor, started() not having stopped it.
EnterHandler(s) ==
    /\ sess[s].st = "created"
    /\ ~sess[s].authed
    /\ sess' = [sess EXCEPT ![s].st = "running"]
    /\ UNCHANGED <<reg_nodes, nodes, reg_lock, nodes_lock, calls, out, nodes_pc, list, stdout>>

\* Registration Stores that runs of /register calls leave behind: each
\* identifier unregistered or registered once.
SessionStores ==
    {[id \in D |-> RegisteredNode(id, IF id.lo = 1 THEN "p1" ELSE "p2",
                                      IF id.lo = 1 THEN "d1" ELSE "d2")] :
        D \in SUBSET Ids}

InitSession ==
    /\ reg_nodes \in SessionStores
    /\ InitCommon

NextSession ==
    \/ \E s \in Sessions : WsIndex(s)
    \/ \E s \in Sessions, id \in Ids : OpenAuthenticated(s, id)
    \/ \E s \in Sessions : Started(s)
    \/ \E s \in Sessions : EnterHandler(s)
    \/ \E s \in Sessions, f \in Frames : HandleAuthLock(s, f)
    \/ \E s \in Sessions : HandleAuthBody(s)
    \/ \E s \in Sessions, f \in Frames : HandleInvalidAuth(s, f)
    \/ \E s \in Sessions, f \in Frames : HandleTextAuthed(s, f)
    \/ \E s \in Sessions, f \in Frames : HandlePing(s, f)
    \/ \E s \in Sessions, f \in Frames : HandleIgnored(s, f)
    \/ \E s \in Sessions, f \in Frames : HandleClose(s, f)
    \/ \E s \in Sessions : StreamFinished(s)
    \/ \E s \in Sessions : Stopped(s)
    \/ NodesLock
    \/ NodesRespond

SpecSession == InitSession /\ [][NextSession]_vars

\* ------------------------------------- /register beside a session actor
\* The endpoints of Spec, from the empty store of main(), interleaved with
\* the callbacks of NumJoint session actors.
NextJoint ==
    \/ \E c \in Calls, req \in RegisterRequest : RegisterLock(c, req)
    \/ \E c \in Calls : RegisterCheck(c)
    \/ \E c \in Calls : RegisterInsert(c)
    \/ \E s \in JointSessions : WsIndex(s)
    \/ \E s \in JointSessions, id \in Ids : OpenAuthenticated(s, id)
    \/ \E s \in JointSessions : Started(s)
    \/ \E s \in JointSessions : EnterHandler(s)
    \/ \E s \in JointSessions, f \in Frames : HandleAuthLock(s, f)
    \/ \E s \in JointSessions : HandleAuthBody(s)
    \/ \E s \in JointSessions, f \in Frames : HandleInvalidAuth(s, f)
    \/ \E s \in JointSessions, f \in Frames : HandleTextAuthed(s, f)
    \/ \E s \in JointSessions, f \in Frames : HandlePing(s, f)
    \/ \E s \in JointSessions, f \in Frames : HandleIgnored(s, f)
    \/ \E s \in JointSessions, f \in Frames : HandleClose(s, f)
    \/ \E s \in JointSessions : StreamFinished(s)
    \/ \E s \in JointSessions : Stopped(s)
    \/ NodesLock
    \/ NodesRespond

\* The progress the runtime gives: the holder of a guard runs to the end of
\* its critical section (no await, no blocking call inside), and a context
\* that waits for the ActiveNodes mutex in started() or stopped() gets it in
\* the end (the mutex is taken to serve every waiter; std::sync::Mutex
\* itself documents no order among waiters).
JointProgress ==
    /\ \A c \in Calls : WF_vars(RegisterCheck(c)) /\ WF_vars(RegisterInsert(c))
    /\ \A s \in JointSessions : WF_vars(HandleAuthBody(s))
    /\ \A s \in JointSessions : SF_vars(Started(s)) /\ SF_vars(Stopped(s))
    /\ WF_vars(NodesRespond)

SpecJoint == Init /\ [][NextJoint]_vars /\ JointProgress

\* ------------------------------------ the session actor and its transport
\* SpecSession with the Err items of the stream, and with the progress the
\* runtime gives: a stopping context runs stopped() (it waits for the
\* ActiveNodes mutex, taken to be handed to every waiter in the end), and a
\* holder of a guard runs to the end of its critical section.  Whether more
\* items follow an Err item, or the stream ends, is up to the peer and the
\* transport: StreamFinished is under no fairness.
NextTransport ==
    \/ NextSession
    \/ \E s \in Sessions : HandleError(s)

Progress ==
    /\ \A s \in Sessions : SF_vars(Stopped(s))
    /\ \A s \in Sessions : WF_vars(HandleAuthBody(s))
    /\ WF_vars(NodesRespond)

SpecTransport == InitSession /\ [][NextTransport]_vars /\ Progress

\* ======================================================================
\* Vocabulary of the claims
\* ======================================================================
\* Closed: the actor has stopped and stopped() has run.
Closed(s) == sess[s].st = "stopped"

\* The session holds identity x in its authenticated state and is not Closed.
HoldsIdentity(s, x) ==
    /\ sess[s].authed
    /\ sess[s].id = x
    /\ sess[s].st \in {"running", "stopping"}

\* The step is a step of POST /register call c that ends the call.
CallEnds(c) == calls[c].pc # "done" /\ calls'[c].pc = "done"

\* ======================================================================
\* C1  Registration is first-writer-wins: among the calls for one
\*     identifier at most one succeeds; a call succeeds exactly when the
\*     identifier is not stored at the moment it decides, and is a conflict
\*     otherwise; a stored record is the request of the call that succeeded
\*     and no step changes or removes it.
\* ======================================================================
C1_OneSuccessPerId ==
    \A c1, c2 \in Calls :
        (c1 # c2 /\ calls[c1].resp = "ok" /\ calls[c2].resp = "ok")
            => calls[c1].req.id # calls[c2].req.id

C1_StoredIsFirstWrite ==
    /\ \A c \in Calls :
          calls[c].resp = "ok" =>
              /\ calls[c].req.id \in DOMAIN reg_nodes
              /\ reg_nodes[calls[c].req.id] =
                     [id |-> calls[c].req.id, password |-> calls[c].req.password,
                      mc_id |-> calls[c].req.mc_id]
    /\ \A id \in DOMAIN reg_nodes :
          \E c \in Calls : calls[c].resp = "ok" /\ calls[c].req.id = id

C1_RecordImmutable ==
    \A id \in DOMAIN reg_nodes : id \in DOMAIN reg_nodes' /\ reg_nodes'[id] = reg_nodes[id]

C1_LaterCallsConflict ==
    \A c \in Calls :
        CallEnds(c) =>
            /\ (calls[c].req.id \in DOMAIN reg_nodes) => calls'[c].resp = "conflict"
            /\ (calls[c].req.id \notin DOMAIN reg_nodes) => calls'[c].resp = "ok"

\* C1: at most one success per identifier, later calls conflict, the stored
\* record is the first write and is never changed or removed.
C1_RegisterFirstWriterWins ==
    /\ [](C1_OneSuccessPerId /\ C1_StoredIsFirstWrite)
    /\ [][C1_RecordImmutable /\ C1_LaterCallsConflict]_vars

\* Two calls for one identifier with different payloads have both ended: one
\* succeeded, the other was rejected.
C1_Witness ==
    \E c1, c2 \in Calls :
        /\ calls[c1].resp = "ok"
        /\ calls[c2].resp = "conflict"
        /\ calls[c1].req.id = calls[c2].req.id
        /\ calls[c1].req.password # calls[c2].req.password
        /\ calls[c1].req.mc_id # calls[c2].req.mc_id

\* ======================================================================
\* C7  A session opened unauthenticated is rejected at open: started()
\*     sends "Authentication required" and a close frame and stops the
\*     context, the session never runs, is never authenticated, and no step
\*     of its lifetime adds an entry to the Active Registry.
\* ======================================================================
C7_NeverAdmitted ==
    \A s \in Sessions : sess[s].st # "running" /\ ~sess[s].authed

C7_RejectedAtOpen ==
    \A s \in Sessions :
        (sess[s].st = "created" /\ sess'[s].st # "created") =>
            /\ sess'[s].st = "stopping"
            /\ out'[s] = out[s] \o <<"Authentication required", "<close>">>
            /\ nodes' = nodes

C7_NoEntryGained ==
    \A s \in Sessions :
        (sess'[s] # sess[s] /\ ~sess[s].authed) => DOMAIN nodes' \subseteq DOMAIN nodes

\* C7: an unauthenticated session is stopped by started(), never runs and
\* never gains the registry an entry.
C7_UnauthenticatedOpenRejected ==
    /\ []C7_NeverAdmitted
    /\ [][C7_RejectedAtOpen /\ C7_NoEntryGained]_vars

\* A session has been rejected at open and torn down.
C7_Witness ==
    \E s \in Sessions :
        /\ Closed(s)
        /\ ~sess[s].authed
        /\ out[s] = <<"Authentication required", "<close>">>

\* ----------------------------------------------------------------------
\* Steps of a session, told from the two states of the step.
\* ----------------------------------------------------------------------
\* handle() of session s finishes an AuthMessage it took while unauthenticated.
AuthStep(s) == sess[s].pc = "locked" /\ sess'[s].pc = "idle"

\* The AuthMessage names a registered id and carries the stored credential.
ValidAuth(auth) ==
    /\ auth.id \in DOMAIN reg_nodes
    /\ reg_nodes[auth.id].password = auth.password

\* stopped() of session s runs.
TeardownStep(s) == sess[s].st = "stopping" /\ sess'[s].st = "stopped"

\* handle() of the authenticated running session s prints the text it was
\* given (the text arm, line 118).
AuthedTextStep(s, text) ==
    /\ sess[s].st = "running"
    /\ sess[s].authed
    /\ sess[s].pc = "idle"
    /\ stdout' # stdout
    /\ stdout' = [line |-> "WS message", id |-> sess[s].id, text |-> text]

\* ======================================================================
\* C2  An unauthenticated session that handles an accepted AuthMessage is
\*     afterwards authenticated with that id and the stored device
\*     identifier, has sent "Authenticated", and the Active Registry holds
\*     an entry for that id with ip "unknown", port 0, active = true.
\* ======================================================================
C2_AuthSuccessRegisters ==
    [][\A s \in Sessions :
          (AuthStep(s) /\ ValidAuth(sess[s].msg)) =>
              LET id == sess[s].msg.id
              IN /\ sess'[s].authed
                 /\ sess'[s].st = "running"
                 /\ sess'[s].id = id
                 /\ sess'[s].mc_id = reg_nodes[id].mc_id
                 /\ out'[s] = out[s] \o <<"Authenticated">>
                 /\ id \in DOMAIN nodes'
                 /\ nodes'[id].ip = "unknown"
                 /\ nodes'[id].port = 0
                 /\ nodes'[id].active]_vars

\* ======================================================================
\* C3  An unauthenticated session that handles an AuthMessage with an
\*     unregistered id or a wrong credential sends "Authentication failed"
\*     and a close frame and stops; it is never authenticated afterwards;
\*     the Active Registry is unchanged by the step and by the session's
\*     teardown.
\* ======================================================================
C3_FailedStep ==
    \A s \in Sessions :
        (AuthStep(s) /\ ~ValidAuth(sess[s].msg)) =>
            /\ out'[s] = out[s] \o <<"Authentication failed", "<close>">>
            /\ sess'[s].st = "stopping"
            /\ ~sess'[s].authed
            /\ nodes' = nodes
            /\ reg_nodes' = reg_nodes

C3_StaysUnauthenticated ==
    \A s \in Sessions :
        (sess[s].st \in {"stopping", "stopped"} /\ ~sess[s].authed) =>
            /\ ~sess'[s].authed
            /\ sess'[s].st \in {"stopping", "stopped"}
            /\ (TeardownStep(s) => nodes' = nodes)

\* C3: a rejected AuthMessage ends the session unauthenticated and leaves the
\* Active Registry as it was, through the step and the teardown.
C3_AuthFailureCloses == [][C3_FailedStep /\ C3_StaysUnauthenticated]_vars

\* A session whose authentication failed has been torn down while another
\* session's entry is in the Active Registry.
C3_Witness ==
    \E s \in Sessions :
        /\ Closed(s)
        /\ ~sess[s].authed
        /\ out[s] = <<"Authentication failed", "<close>">>
        /\ DOMAIN nodes # {}

\* ======================================================================
\* C4  Every entry of the Active Registry is held: for each key X some
\*     session that is not Closed is authenticated with identity X.
\* ======================================================================
C4_EntryHasHolder ==
    \A x \in DOMAIN nodes : \E s \in Sessions : HoldsIdentity(s, x)

\* An entry exists for an identifier that a Closed session held as well.
C4_Witness ==
    \E x \in DOMAIN nodes :
        \E s \in Sessions : Closed(s) /\ sess[s].authed /\ sess[s].id = x

\* ======================================================================
\* C5  Every running authenticated session has its entry: for each session
\*     that is authenticated with identity X and not Closed, the Active
\*     Registry has an entry for X.
\* ======================================================================
C5_HolderHasEntry ==
    \A s \in Sessions :
        (sess[s].authed /\ sess[s].st = "running") => sess[s].id \in DOMAIN nodes

\* ======================================================================
\* C6  The teardown of an authenticated session with identity X leaves no
\*     entry for X and leaves every other entry as it was.
\* ======================================================================
C6_TeardownRemovesOwnEntryOnly ==
    [][\A s \in Sessions :
          (TeardownStep(s) /\ sess[s].authed) =>
              /\ sess[s].id \notin DOMAIN nodes'
              /\ DOMAIN nodes' = DOMAIN nodes \ {sess[s].id}
              /\ \A y \in DOMAIN nodes' : nodes'[y] = nodes[y]]_vars

\* An authenticated session has just been torn down, its entry is gone and
\* another identifier's entry is still there.
C6_Witness ==
    \E s \in Sessions :
        /\ Closed(s)
        /\ sess[s].authed
        /\ stdout = [line |-> "WebSocket disconnected", id |-> sess[s].id, text |-> NoText]
        /\ sess[s].id \notin DOMAIN nodes
        /\ DOMAIN nodes # {}

\* ======================================================================
\* C8  An authenticated session whose entry is present and that handles
\*     SetAddress{ip, port} leaves its entry with that ip and port, every
\*     other field and entry unchanged, and sends "Address updated".
\* ======================================================================
C8_SetAddressUpdatesEntry ==
    [][\A s \in Sessions :
          (AuthedTextStep(s, [kind |-> "set_address", ip |-> "10.0.0.5", port |-> 9000])
              /\ sess[s].id \in DOMAIN nodes) =>
              /\ nodes' = [nodes EXCEPT ![sess[s].id].ip = "10.0.0.5",
                                        ![sess[s].id].port = 9000]
              /\ out'[s] = out[s] \o <<"Address updated">>]_vars

\* ======================================================================
\* C9  An AuthMessage handled by an authenticated session changes nothing
\*     (identity, device identifier, both registries, still authenticated
\*     and running) and "Already authenticated" is sent.
\* ======================================================================
C9_SecondAuthNoticed ==
    [][\A s \in Sessions : \A id \in Ids, pw \in Passwords :
          AuthedTextStep(s, [kind |-> "auth", id |-> id, password |-> pw]) =>
              /\ sess'[s] = sess[s]
              /\ nodes' = nodes
              /\ reg_nodes' = reg_nodes
              /\ out'[s] = out[s] \o <<"Already authenticated">>]_vars

\* ======================================================================
\* C10 Two sessions that authenticated by AuthMessage are both in list():
\*     when GET /nodes takes the registry's guard while both are
\*     authenticated and running, the registry under the guard, which is
\*     what the call returns, lists one entry for each of their identifiers
\*     (one entry in all when they share the identifier).
\* ======================================================================
AuthenticatedByMessage(s) ==
    /\ sess[s].authed
    /\ sess[s].st = "running"
    /\ sess[s].pc = "idle"
    /\ \E i \in 1..Len(out[s]) : out[s][i] = "Authenticated"

C10_BothListed ==
    [][\A s1, s2 \in Sessions :
          (/\ s1 # s2
           /\ AuthenticatedByMessage(s1)
           /\ AuthenticatedByMessage(s2)
           /\ nodes_pc = "idle"
           /\ nodes_pc' = "locked") =>
              /\ sess[s1].id \in DOMAIN nodes
              /\ sess[s2].id \in DOMAIN nodes
              /\ \A l \in ValueLists(nodes) :
                    /\ \E i \in 1..Len(l) : l[i].id = sess[s1].id
                    /\ \E i \in 1..Len(l) : l[i].id = sess[s2].id
                    /\ \A i, j \in 1..Len(l) : l[i].id = l[j].id => i = j]_vars

\* ======================================================================
\* C11 A rejected operation leaves the Registration Store and the Active
\*     Registry as they were: a register call answered with a conflict, an
\*     AuthMessage with an unregistered id or a wrong credential, a text
\*     that is not an AuthMessage (an address message included) handled
\*     before or after authentication, and the teardown of a session that
\*     was never authenticated.  A session that is not authenticated has
\*     no entry under its identifier.
\* ======================================================================
\* The step handles text t in a running session that is not authenticated,
\* t not being an AuthMessage.
RejectedTextStep(s, t) ==
    /\ sess[s].st = "running"
    /\ ~sess[s].authed
    /\ sess[s].pc = "idle"
    /\ ~ParsesAsAuth(t)
    /\ stdout' # stdout
    /\ stdout' = Line("WS message", sess[s].id, t)

RegistriesUnchanged == nodes' = nodes /\ reg_nodes' = reg_nodes

C11_Rejections ==
    /\ \A c \in Calls :
           (CallEnds(c) /\ calls'[c].resp = "conflict") => RegistriesUnchanged
    /\ \A s \in Sessions :
           /\ (AuthStep(s) /\ ~ValidAuth(sess[s].msg)) => RegistriesUnchanged
           /\ \A t \in Texts : RejectedTextStep(s, t) => RegistriesUnchanged
           /\ AuthedTextStep(s, GarbageText) => RegistriesUnchanged
           /\ (TeardownStep(s) /\ ~sess[s].authed) => RegistriesUnchanged
           /\ ~sess'[s].authed => ~ContainsKey(nodes', sess'[s].id)

\* C11: no rejected operation changes either registry, and an address
\* message before authentication makes no entry appear.
C11_RejectedOperationsChangeNothing == [][C11_Rejections]_vars

\* A register call was answered with a conflict, and a session that sent a
\* text other than an AuthMessage before authenticating has been torn down.
C11_Witness ==
    /\ \E c \in Calls : calls[c].resp = "conflict"
    /\ \E s \in Sessions :
           /\ Closed(s)
           /\ ~sess[s].authed
           /\ out[s] = <<"Invalid authentication message", "<close>">>

\* ======================================================================
\* C12 Once a close frame or a transport error has been delivered to a
\*     session, the session is eventually Closed (stopped() has run).
\* ======================================================================
\* handle() has just been given a Close frame by session s.
CloseDelivered(s) ==
    /\ sess[s].st = "stopping"
    /\ stdout = Line("WS closed", sess[s].id, NoText)

\* handle() has been given an Err item by session s.
ErrorDelivered(s) == sess[s].err

\* C12: a delivered close frame or error leads to Closed.
C12_CloseOrErrorLeadsToClosed ==
    \A s \in Sessions : (CloseDelivered(s) \/ ErrorDelivered(s)) ~> Closed(s)

\* ======================================================================
\* C13 A session calls the removal of the Active Registry at most once, in
\*     its teardown and nowhere else; a Closed session has called it
\*     exactly once, whether it was authenticated or stopped by a failed
\*     authentication, and takes no further step.
\* ======================================================================
C13_RemovalCount ==
    \A s \in Sessions :
        /\ sess'[s].removes <= 1
        /\ sess'[s].st = "stopped" => sess'[s].removes = 1
        /\ sess'[s].removes # sess[s].removes => TeardownStep(s)
        /\ TeardownStep(s) => sess'[s].removes = sess[s].removes + 1

C13_ClosedIsSilent ==
    \A s \in Sessions :
        Closed(s) => (sess'[s] = sess[s] /\ out'[s] = out[s])

\* C13: one removal per session, made by its teardown; none after Closed.
C13_RemovesOnce == [][C13_RemovalCount /\ C13_ClosedIsSilent]_vars

\* An authenticated session and a session stopped by a failed authentication
\* are both Closed, each after one removal.
C13_Witness ==
    \E s, t \in Sessions :
        /\ Closed(s) /\ sess[s].authed /\ sess[s].removes = 1
        /\ Closed(t) /\ ~sess[t].authed /\ sess[t].removes = 1
        /\ out[t] = <<"Authentication failed", "<close>">>

\* ======================================================================
\* C14 The lifecycle of a session is monotone: once authenticated it stays
\*     authenticated and keeps its identity and device identifier; once
\*     stopping it never runs again; Closed is terminal.
\* ======================================================================
C14_Monotone ==
    \A s \in Sessions :
        /\ sess[s].authed =>
               /\ sess'[s].authed
               /\ sess'[s].id = sess[s].id
               /\ sess'[s].mc_id = sess[s].mc_id
        /\ sess[s].st = "stopping" => sess'[s].st \in {"stopping", "stopped"}
        /\ Closed(s) => sess'[s].st = "stopped"

\* C14: no step un-authenticates a session, changes the identity of an
\* authenticated session, or leaves Closed.
C14_LifecycleMonotone == [][C14_Monotone]_vars

\* A session authenticated by an AuthMessage, then closed by a Close frame,
\* is Closed and still carries its identity.
C14_Witness ==
    \E s \in Sessions :
        /\ Closed(s)
        /\ sess[s].authed
        /\ sess[s].id \in Ids
        /\ out[s] = <<"Authenticated", "<close>">>

\* ======================================================================
\* C15 A text that is not an AuthMessage handled before authentication, and
\*     a failed authentication, close the session.  A malformed text
\*     handled by an authenticated session is answered with a notice (one
\*     frame to the peer, no close frame) and leaves the session as it
\*     was, authenticated and running.
\* ======================================================================
C15_Failures ==
    \A s \in Sessions :
        /\ \A t \in Texts :
               RejectedTextStep(s, t) =>
                   /\ sess'[s].st = "stopping"
                   /\ out'[s] = out[s] \o <<"Invalid authentication message", "<close>">>
        /\ (AuthStep(s) /\ ~ValidAuth(sess[s].msg)) =>
               /\ sess'[s].st = "stopping"
               /\ out'[s] = out[s] \o <<"Authentication failed", "<close>">>
        /\ AuthedTextStep(s, GarbageText) =>
               /\ sess'[s] = sess[s]
               /\ Len(out'[s]) = Len(out[s]) + 1
               /\ out'[s][Len(out'[s])] # "<close>"

\* C15: which failures close the session and which are answered by a notice.
C15_FailureSemantics == [][C15_Failures]_vars

C17_Teardown ==
    \A s \in Sessions :
        (TeardownStep(s) /\ ~sess[s].authed) =>
            /\ nodes' = nodes
            /\ \A t \in Sessions : sess[t].authed => sess[t].id # sess[s].id

\* C17: an unauthenticated teardown removes nothing.
C17_UnauthenticatedTeardownRemovesNothing == [][C17_Teardown]_vars

\* A session rejected at open has been torn down while the entry of an
\* authenticated session is in the Active Registry.
C17_Witness ==
    \E s, t \in Sessions :
        /\ Closed(s) /\ ~sess[s].authed
        /\ out[s] = <<"Authentication required", "<close>">>
        /\ sess[t].authed /\ sess[t].st = "running"
        /\ ContainsKey(nodes, sess[t].id)

\* ======================================================================
\* C18 The registry guards are held in bounded critical sections: each
\*     guard is held by the one operation that is inside its critical
\*     section and by no operation that has returned; no operation holds
\*     both guards; the holder of a guard can always take its next step,
\*     so no interleaving deadlocks; every guard taken is released, and a
\*     session waiting for the Active Registry guard in started() or
\*     stopped() acquires it.
\* ======================================================================
\* Who holds the RegisteredNodes guard, and where each holder stands.
C18_RegGuard ==
    /\ reg_lock \in {Free} \cup {RegisterOwner(c) : c \in Calls}
                        \cup {SessionOwner(s) : s \in Sessions}
    /\ \A c \in Calls : reg_lock = RegisterOwner(c) <=> calls[c].pc \in {"check", "insert"}
    /\ \A s \in Sessions : reg_lock = SessionOwner(s) <=> sess[s].pc = "locked"

\* The ActiveNodes guard is held across steps by GET /nodes only; started()
\* and stopped() take and drop it within one statement.
C18_NodesGuard ==
    /\ nodes_lock \in {Free, NodesOwner}
    /\ nodes_lock = NodesOwner <=> nodes_pc = "locked"

\* The holder of a guard is never blocked.
C18_HolderCanProceed ==
    /\ \A c \in Calls :
           reg_lock = RegisterOwner(c) => ENABLED (RegisterCheck(c) \/ RegisterInsert(c))
    /\ \A s \in Sessions : reg_lock = SessionOwner(s) => ENABLED HandleAuthBody(s)
    /\ nodes_lock = NodesOwner => ENABLED NodesRespond

\* A step that uses the ActiveNodes guard is taken by an operation that
\* does not hold the RegisteredNodes guard.
C18_OneGuardAtATime ==
    \A s \in Sessions :
        (\/ TeardownStep(s)
         \/ sess[s].st = "created" /\ sess[s].authed /\ sess'[s].st = "running") =>
            /\ reg_lock # SessionOwner(s)
            /\ nodes_lock = Free

C18_Released ==
    /\ \A c \in Calls : calls[c].pc \in {"check", "insert"} ~> calls[c].pc = "done"
    /\ \A s \in Sessions : sess[s].pc = "locked" ~> sess[s].pc = "idle"
    /\ nodes_pc = "locked" ~> nodes_pc = "idle"

C18_Acquired ==
    \A s \in Sessions :
        /\ (sess[s].st = "created" /\ sess[s].authed) ~> sess[s].st = "running"
        /\ sess[s].st = "stopping" ~> Closed(s)

C19_Snapshot ==
    /\ nodes_pc = "locked" => nodes' = nodes
    /\ (nodes_pc = "locked" /\ nodes_pc' = "idle") =>
           /\ list' \in ValueLists(nodes)
           /\ \A i \in 1..Len(list') : list'[i] = nodes[list'[i].id]
    /\ nodes_pc' = nodes_pc => list' = list

\* C19: list() returns the registry as it is under the guard.
C19_ListIsAtomic == [][C19_Snapshot]_vars

\* GET /nodes holds the guard while one session waits to remove its entry
\* and another waits to insert its own.
C19_Witness ==
    /\ nodes_pc = "locked"
    /\ \E s, t \in Sessions :
           /\ sess[s].st = "stopping" /\ sess[s].authed /\ ContainsKey(nodes, sess[s].id)
           /\ sess[t].st = "created" /\ sess[t].authed /\ ~ContainsKey(nodes, sess[t].id)

\* ======================================================================
\* C20 In the program as wired no session is ever authenticated or running:
\*     started() stops each one before a frame is handled; the Active
\*     Registry is empty in every state and GET /nodes returns no entry.
\* ======================================================================
\* C20: the Active Registry is always empty.
C20_ActiveRegistryAlwaysEmpty ==
    /\ nodes = EmptyMap
    /\ list = << >>
    /\ \A s \in Sessions :
           /\ ~sess[s].authed
           /\ sess[s].st # "running"
           /\ sess[s].id \in {TempId(0), TempId(s)}

\* Both identifiers are registered, every connection has been opened and
\* torn down, and GET /nodes is about to answer.
C20_Witness ==
    /\ DOMAIN reg_nodes = Ids
    /\ \A s \in Sessions : Closed(s)
    /\ nodes_pc = "locked"

====
